---- MODULE Spec2Model ----
(***************************************************************************)
(* Model of the attestation-gated MCP server (src/src/server.py) and of    *)
(* the attestation verifier client (src/src/agent.py).                     *)
(*                                                                         *)
(* Text whose characters matter (SQL, urgency, message) is a sequence of   *)
(* one-character strings; text that is only compared whole is a string.    *)
(* The em dash of the source's messages is written as a hyphen.            *)
(***************************************************************************)
EXTENDS Integers, Sequences, FiniteSets, TLC

VARIABLES
    environ,               \* os.environ of the server process: name -> value or Unset
    GITHUB_TOKEN,          \* server.py module globals, read once at import
    DB_CONNECTION_STRING,
    WEBHOOK_URL,
    fs,                    \* the set of marker paths that exist on the server host
    inv,                   \* the last tool invocation of the server and how it ended
    pc,                    \* position of the client (agent.py main / run)
    transport_open,        \* streamablehttp_client context entered and not yet exited
    session_open,          \* ClientSession context entered and not yet exited
    result,                \* the CallToolResult bound at agent.py:32
    exc,                   \* the exception in flight in the client (NoExc when none)
    data,                  \* json.loads(result.content[0].text) in run()
    ret,                   \* value returned by run() (NoCode while none)
    stdout,                \* kinds of the lines the client printed, in order
    exit_code,             \* argument of sys.exit (NoCode until main ends)
    server_url,            \* sys.argv[1], or DEFAULT_SERVER_URL
    reached_parse          \* run() got past its `async with` blocks to agent.py:34

serverVars == <<environ, GITHUB_TOKEN, DB_CONNECTION_STRING, WEBHOOK_URL, fs, inv>>
clientVars == <<pc, transport_open, session_open, result, exc, data, ret, stdout,
                exit_code, server_url, reached_parse>>
vars == <<serverVars, clientVars>>

Min(a, b) == IF a < b THEN a ELSE b
Max(a, b) == IF a > b THEN a ELSE b

(***************************************************************************)
(* Python text helpers: str.upper, str.strip, str.startswith, `in`.        *)
(***************************************************************************)
LowerCase == <<"a", "b", "c", "d", "e", "f", "g", "h", "i", "j", "k", "l", "m",
               "n", "o", "p", "q", "r", "s", "t", "u", "v", "w", "x", "y", "z">>
UpperCase == <<"A", "B", "C", "D", "E", "F", "G", "H", "I", "J", "K", "L", "M",
               "N", "O", "P", "Q", "R", "S", "T", "U", "V", "W", "X", "Y", "Z">>
\* the ASCII whitespace str.strip() removes, as far as TLA+ strings can name it
Whitespace == {" ", "\t", "\n", "\r", "\f"}

UpperChar(c) ==
    IF \E i \in DOMAIN LowerCase : LowerCase[i] = c
    THEN UpperCase[CHOOSE i \in DOMAIN LowerCase : LowerCase[i] = c]
    ELSE c

Upper(s) == [i \in DOMAIN s |-> UpperChar(s[i])]

Strip(s) ==
    LET keep == {i \in DOMAIN s : s[i] \notin Whitespace}
    IN  IF keep = {} THEN <<>>
        ELSE LET lo == CHOOSE i \in keep : \A j \in keep : i <= j
                 hi == CHOOSE i \in keep : \A j \in keep : i >= j
             IN  SubSeq(s, lo, hi)

StartsWith(s, p) == Len(s) >= Len(p) /\ SubSeq(s, 1, Len(p)) = p

Contains(s, p) ==
    \E i \in 1..(Len(s) - Len(p) + 1) : SubSeq(s, i, i + Len(p) - 1) = p

\* Python truthiness of a str
Bool(s) == s # ""

(***************************************************************************)
(* Secret loading, server.py:43-54                                         *)
(***************************************************************************)
Unset == "<unset>"
SecretNames == <<"GITHUB_TOKEN", "DB_CONNECTION_STRING", "WEBHOOK_URL">>
SecretNameSet == {SecretNames[i] : i \in DOMAIN SecretNames}
EnvValues == {Unset, "", "s3cr3t"}

\* os.environ.get(name, "")
EnvironGet(env, name, default) == IF env[name] = Unset THEN default ELSE env[name]

\* check_secrets with the last entry reporting the wrong global
check_secrets_copy_paste ==
    << [k |-> "GITHUB_TOKEN", v |-> Bool(GITHUB_TOKEN)],
       [k |-> "DB_CONNECTION_STRING", v |-> Bool(DB_CONNECTION_STRING)],
       [k |-> "WEBHOOK_URL", v |-> Bool(DB_CONNECTION_STRING)] >>

\* _check_secrets(): an ordered mapping, as a sequence of (key, value) items
check_secrets ==
    << [k |-> "GITHUB_TOKEN", v |-> Bool(GITHUB_TOKEN)],
       [k |-> "DB_CONNECTION_STRING", v |-> Bool(DB_CONNECTION_STRING)],
       [k |-> "WEBHOOK_URL", v |-> Bool(WEBHOOK_URL)] >>

(***************************************************************************)
(* Outcome of a tool invocation: the outbound calls it made and whether it *)
(* ended by returning a payload or by an exception leaving the tool.       *)
(***************************************************************************)
NoPayload == [none |-> TRUE]
Returned(outbound, payload) ==
    [outbound |-> outbound, ended |-> "return", payload |-> payload, exc |-> ""]
Raised(outbound, e) ==
    [outbound |-> outbound, ended |-> "raise", payload |-> NoPayload, exc |-> e]
ErrorPayload(parts) == [error |-> parts]
IsError(p) == "error" \in DOMAIN p

(***************************************************************************)
(* Tool 1: github_search_issues, server.py:70-123                          *)
(* `up` is what the GitHub API does with the request: a transport failure, *)
(* or a response with a status and a body.                                 *)
(***************************************************************************)
GithubItem(n) ==
    [number |-> n, title |-> "title", state |-> "open", html_url |-> "url",
     updated_at |-> "t", labels |-> <<[name |-> "bug"]>>]

GithubIssue(item) ==
    [number |-> item.number, title |-> item.title, state |-> item.state,
     url |-> item.html_url, updated_at |-> item.updated_at,
     labels |-> [i \in DOMAIN item.labels |-> item.labels[i].name]]

github_search_issues(query, repo, max_results, up) ==
    IF ~Bool(GITHUB_TOKEN)
    THEN Returned(<<>>, ErrorPayload(
             <<"GITHUB_TOKEN not available - attestation may have failed">>))
    ELSE LET clamped == Min(Max(1, max_results), 50)
             q == IF Bool(repo) THEN <<query, " repo:", repo>> ELSE <<query>>
             call == [op |-> "GET", url |-> "https://api.github.com/search/issues",
                      q |-> q, per_page |-> clamped]
         IN  IF up.kind = "transport_error"
             THEN Raised(<<call>>, "httpx.ConnectError")
             ELSE IF up.status >= 400
             THEN Raised(<<call>>, "httpx.HTTPStatusError")       \* raise_for_status()
             ELSE LET items == [i \in 1..up.n_items |-> GithubItem(i)]
                      kept == SubSeq(items, 1, Min(clamped, Len(items)))
                      issues == [i \in DOMAIN kept |-> GithubIssue(kept[i])]
                  IN  Returned(<<call>>,
                               [total_count |-> up.total_count,
                                returned |-> Len(issues),
                                issues |-> issues])

(***************************************************************************)
(* Tool 2: query_database, server.py:127-176                               *)
(* `up` is what asyncpg and the database do: the import fails, connect     *)
(* fails, fetch fails, or fetch returns up.n rows (and close may fail).    *)
(***************************************************************************)
\* forbidden without DROP
forbidden_without_drop ==
    << <<"I", "N", "S", "E", "R", "T">>, <<"U", "P", "D", "A", "T", "E">>,
       <<"D", "E", "L", "E", "T", "E">>,
       <<"A", "L", "T", "E", "R">>,      <<"C", "R", "E", "A", "T", "E">>,
       <<"T", "R", "U", "N", "C", "A", "T", "E">>, <<"E", "X", "E", "C">> >>

KwSelect == <<"S", "E", "L", "E", "C", "T">>
forbidden ==
    << <<"I", "N", "S", "E", "R", "T">>, <<"U", "P", "D", "A", "T", "E">>,
       <<"D", "E", "L", "E", "T", "E">>, <<"D", "R", "O", "P">>,
       <<"A", "L", "T", "E", "R">>,      <<"C", "R", "E", "A", "T", "E">>,
       <<"T", "R", "U", "N", "C", "A", "T", "E">>, <<"E", "X", "E", "C">> >>

MAX_ROWS_CAP == 1000

\* ClampRows without the upper limit
ClampRowsNoCap(max_rows) == Max(1, max_rows)

\* max_rows = min(max(1, max_rows), 1000)
ClampRows(max_rows) == Min(Max(1, max_rows), MAX_ROWS_CAP)

\* server.py:146-153: the error payload of a rejected query, NoPayload when it passes
query_database_validate(sql) ==
    LET sql_upper == Upper(Strip(sql))
        hits == {i \in DOMAIN forbidden : Contains(sql_upper, forbidden[i])}
    IN  IF ~StartsWith(sql_upper, KwSelect)
        THEN ErrorPayload(<<"Only SELECT queries are permitted (read-only mode)">>)
        ELSE IF hits # {}
        THEN LET first == CHOOSE i \in hits : \A j \in hits : i <= j
             IN  ErrorPayload(<<"Query contains forbidden keyword: ">> \o forbidden[first])
        ELSE NoPayload

\* server.py:155-176: the try block
query_database_execute(sql, max_rows, up) ==
    LET clamped == ClampRows(max_rows)
        connect == [op |-> "connect", dsn |-> DB_CONNECTION_STRING]
        fetch == [op |-> "fetch", sql |-> sql]
        close == [op |-> "close"]
    IN  CASE up.kind = "import_error" ->
               Returned(<<>>, ErrorPayload(
                   <<"asyncpg not installed - database queries require the asyncpg package">>))
          [] up.kind = "connect_error" ->
               Returned(<<connect>>, ErrorPayload(<<"Query failed: ", "OSError">>))
          [] up.kind = "fetch_error" ->
               Returned(<<connect, fetch, close>>,
                        ErrorPayload(<<"Query failed: ", "PostgresError">>))
          [] up.kind = "close_error" ->
               Returned(<<connect, fetch, close>>,
                        ErrorPayload(<<"Query failed: ", "InterfaceError">>))
          [] up.kind = "rows" ->
               LET rows == [i \in 1..up.n |-> i]
                   res == [i \in 1..Min(clamped, Len(rows)) |-> [id |-> rows[i]]]
               IN  Returned(<<connect, fetch, close>>,
                            [row_count |-> Len(res),
                             truncated |-> Len(rows) > clamped,
                             rows |-> res])

\* query_database validating its input before it looks at the secret
query_database_validates_first(sql, max_rows, up) ==
    IF IsError(query_database_validate(sql))
    THEN Returned(<<>>, query_database_validate(sql))
    ELSE IF ~Bool(DB_CONNECTION_STRING)
    THEN Returned(<<>>, ErrorPayload(
             <<"DB_CONNECTION_STRING not available - attestation may have failed">>))
    ELSE query_database_execute(sql, max_rows, up)

query_database(sql, max_rows, up) ==
    IF ~Bool(DB_CONNECTION_STRING)
    THEN Returned(<<>>, ErrorPayload(
             <<"DB_CONNECTION_STRING not available - attestation may have failed">>))
    ELSE IF IsError(query_database_validate(sql))
    THEN Returned(<<>>, query_database_validate(sql))
    ELSE query_database_execute(sql, max_rows, up)

(***************************************************************************)
(* Tool 3: send_notification, server.py:180-226                            *)
(***************************************************************************)
UrgLow == <<"l", "o", "w">>
UrgNormal == <<"n", "o", "r", "m", "a", "l">>
UrgHigh == <<"h", "i", "g", "h">>
AllowedUrgency == {UrgLow, UrgNormal, UrgHigh}

send_notification(message, channel, urgency, up) ==
    IF ~Bool(WEBHOOK_URL)
    THEN Returned(<<>>, ErrorPayload(
             <<"WEBHOOK_URL not available - attestation may have failed">>))
    ELSE IF urgency \notin AllowedUrgency
    THEN Returned(<<>>, ErrorPayload(<<"urgency must be 'low', 'normal', or 'high'">>))
    ELSE LET payload == [channel |-> <<"#">> \o channel,
                         text |-> <<"[">> \o Upper(urgency) \o <<"]", " ">> \o message,
                         username |-> "mcp-tee-server",
                         icon_emoji |-> IF urgency = UrgHigh THEN ":lock:"
                                        ELSE ":robot_face:"]
             call == [op |-> "POST", url |-> WEBHOOK_URL, json |-> payload]
         IN  IF up.kind = "transport_error"
             THEN Raised(<<call>>, "httpx.ConnectError")
             ELSE IF up.status >= 400
             THEN Raised(<<call>>, "httpx.HTTPStatusError")       \* raise_for_status()
             ELSE Returned(<<call>>,
                           [status |-> "delivered", channel |-> channel,
                            urgency |-> urgency, timestamp |-> "now"])

(***************************************************************************)
(* attestation_status, server.py:230-248.  A mapping is a sequence of      *)
(* (key, value) items in insertion order; see the JSON values below.       *)
(***************************************************************************)
PathTee == "/sys/kernel/security/tee"
PathSevGuest == "/dev/sev-guest"
PathSev == "/dev/sev"
MarkerPaths == {PathTee, PathSevGuest, PathSev}

\* os.path.exists
Exists(path) == path \in fs

tee_evidence == Exists(PathTee)
snp_evidence == Exists(PathSevGuest) \/ Exists(PathSev)

\* tee_type with the generic marker taking precedence
tee_type_generic_first ==
    IF tee_evidence THEN "TEE detected"
    ELSE IF snp_evidence THEN "AMD SEV-SNP" ELSE "none detected"

tee_type ==
    IF snp_evidence THEN "AMD SEV-SNP"
    ELSE IF tee_evidence THEN "TEE detected" ELSE "none detected"

attestation_status ==
    Returned(<<>>,
             [server |-> "mcp-tee-server",
              version |-> "1.0.0",
              running_in_tee |-> tee_evidence \/ snp_evidence,
              tee_type |-> tee_type,
              secrets_loaded |-> check_secrets,
              timestamp |-> "now"])

(***************************************************************************)
(* The arguments a caller may pass and what the external services may do.  *)
(***************************************************************************)
RowOverflow == 1          \* upstream row counts reach MAX_ROWS_CAP + RowOverflow
ItemOverflow == 1         \* upstream item counts reach 50 + ItemOverflow

Queries == {"bug label:critical"}
Repos == {"", "opencontainers/runc"}
MaxResultsInputs == {0, 10, 999}
GithubUpstream ==
    {[kind |-> "transport_error", status |-> 0, n_items |-> 0, total_count |-> 0]}
    \cup {[kind |-> "response", status |-> st, n_items |-> 0, total_count |-> 0] :
             st \in {403, 500}}
    \cup {[kind |-> "response", status |-> 200, n_items |-> n, total_count |-> n + 7] :
             n \in {0, 2, 50 + ItemOverflow}}

SqlSelect1 == <<"S", "E", "L", "E", "C", "T", " ", "1">>
SqlDropTail == <<"s", "e", "l", "e", "c", "t", " ", "*", " ", "f", "r", "o", "m", " ",
                 "t", ";", " ", "D", "R", "O", "P", " ", "T", "A", "B", "L", "E", " ", "t">>
SqlUpdate == <<"U", "P", "D", "A", "T", "E", " ", "t", " ", "S", "E", "T", " ", "x", "=", "1">>
SqlPadded == <<" ", " ", "s", "e", "l", "e", "c", "t", " ", "1", " ", "\n">>
SqlCreatedAt == <<"S", "E", "L", "E", "C", "T", " ", "c", "r", "e", "a", "t", "e", "d", "_",
                  "a", "t", " ", "F", "R", "O", "M", " ", "t">>
SqlEmpty == <<>>
SqlSelec == <<"S", "E", "L", "E", "C">>
SqlTwoKeywords == <<"s", "e", "l", "e", "c", "t", " ", "1", ";", " ", "e", "x", "e", "c",
                    " ", "p", ";", " ", "i", "n", "s", "e", "r", "t">>
SqlLeadingDelete == <<"\t", "D", "E", "L", "E", "T", "E", " ", "F", "R", "O", "M", " ", "t">>
SqlSamples == {SqlSelect1, SqlDropTail, SqlUpdate, SqlPadded, SqlCreatedAt, SqlEmpty,
               SqlSelec, SqlTwoKeywords, SqlLeadingDelete}

MaxRowsInputs == {-3, 0, 2, 100, MAX_ROWS_CAP + RowOverflow, 5000}
RowCounts == {0, 2, 3, MAX_ROWS_CAP, MAX_ROWS_CAP + RowOverflow}
DbUpstream ==
    {[kind |-> k, n |-> 0] : k \in {"import_error", "connect_error", "fetch_error"}}
    \cup {[kind |-> "close_error", n |-> 1]}
    \cup {[kind |-> "rows", n |-> n] : n \in RowCounts}

Messages == {<<"d", "i", "s", "k", " ", "f", "u", "l", "l">>}
Channels == {<<"g", "e", "n", "e", "r", "a", "l">>}
UrgCritical == <<"c", "r", "i", "t", "i", "c", "a", "l">>
UrgHighCaps == <<"H", "I", "G", "H">>
UrgencyInputs == {UrgLow, UrgNormal, UrgHigh, UrgCritical, UrgHighCaps, <<>>}
WebhookUpstream ==
    {[kind |-> "transport_error", status |-> 0]}
    \cup {[kind |-> "response", status |-> st] : st \in {200, 404, 500}}

(***************************************************************************)
(* Server actions: one tool invocation each, one request at a time; `inv`  *)
(* keeps the invocation until its outcome is delivered.                    *)
(***************************************************************************)
NoArgs == [none |-> TRUE]
NoInv == [tool |-> "none", args |-> NoArgs, up |-> NoArgs, outbound |-> <<>>,
          ended |-> "none", payload |-> NoPayload, exc |-> ""]

Invocation(tool, args, up, out) ==
    [tool |-> tool, args |-> args, up |-> up, outbound |-> out.outbound,
     ended |-> out.ended, payload |-> out.payload, exc |-> out.exc]

GithubSearchIssues ==
    /\ inv = NoInv
    /\ \E query \in Queries, repo \in Repos, max_results \in MaxResultsInputs,
          up \in GithubUpstream :
          inv' = Invocation("github_search_issues",
                            [query |-> query, repo |-> repo, max_results |-> max_results],
                            up, github_search_issues(query, repo, max_results, up))
    /\ UNCHANGED <<environ, GITHUB_TOKEN, DB_CONNECTION_STRING, WEBHOOK_URL, fs, clientVars>>

QueryDatabase ==
    /\ inv = NoInv
    /\ \E sql \in SqlSamples, max_rows \in MaxRowsInputs, up \in DbUpstream :
          inv' = Invocation("query_database", [sql |-> sql, max_rows |-> max_rows],
                            up, query_database(sql, max_rows, up))
    /\ UNCHANGED <<environ, GITHUB_TOKEN, DB_CONNECTION_STRING, WEBHOOK_URL, fs, clientVars>>

SendNotification ==
    /\ inv = NoInv
    /\ \E message \in Messages, channel \in Channels, urgency \in UrgencyInputs,
          up \in WebhookUpstream :
          inv' = Invocation("send_notification",
                            [message |-> message, channel |-> channel, urgency |-> urgency],
                            up, send_notification(message, channel, urgency, up))
    /\ UNCHANGED <<environ, GITHUB_TOKEN, DB_CONNECTION_STRING, WEBHOOK_URL, fs, clientVars>>

AttestationStatus ==
    /\ inv = NoInv
    /\ inv' = Invocation("attestation_status", NoArgs, NoArgs, attestation_status)
    /\ UNCHANGED <<environ, GITHUB_TOKEN, DB_CONNECTION_STRING, WEBHOOK_URL, fs, clientVars>>

\* server.py:266-270, mcp.run: the outcome goes back to the caller and the server
\* is ready for the next request of the connection
Deliver ==
    /\ inv # NoInv
    /\ inv' = NoInv
    /\ UNCHANGED <<environ, GITHUB_TOKEN, DB_CONNECTION_STRING, WEBHOOK_URL, fs, clientVars>>

\* server.py:43-45 at import; the host's marker paths are whatever they are
ServerStart ==
    /\ environ \in [SecretNameSet -> EnvValues]
    /\ GITHUB_TOKEN = EnvironGet(environ, "GITHUB_TOKEN", "")
    /\ DB_CONNECTION_STRING = EnvironGet(environ, "DB_CONNECTION_STRING", "")
    /\ WEBHOOK_URL = EnvironGet(environ, "WEBHOOK_URL", "")
    /\ fs \in SUBSET MarkerPaths
    /\ inv = NoInv

(***************************************************************************)
(* JSON.  A Python value decoded from JSON is a record [t, b, s, items]:   *)
(* t is the type; b the value of a bool; s the value of a str or the       *)
(* digits of a number; items the elements of a list, or the (k, v) items   *)
(* of a dict in insertion order.  JSON text is a sequence of tokens.       *)
(***************************************************************************)
JNull == [t |-> "null", b |-> FALSE, s |-> "", items |-> <<>>]
JBool(x) == [t |-> "bool", b |-> x, s |-> "", items |-> <<>>]
JStr(x) == [t |-> "str", b |-> FALSE, s |-> x, items |-> <<>>]
JNum(digits) == [t |-> "num", b |-> FALSE, s |-> digits, items |-> <<>>]
JList(xs) == [t |-> "list", b |-> FALSE, s |-> "", items |-> xs]
JDict(kvs) == [t |-> "dict", b |-> FALSE, s |-> "", items |-> kvs]

\* Python truthiness of a decoded value
Truthy(x) ==
    CASE x.t = "bool" -> x.b
      [] x.t = "null" -> FALSE
      [] x.t = "str" -> x.s # ""
      [] x.t = "num" -> x.s # "0"
      [] OTHER -> x.items # <<>>

\* d[k] = v on a dict's items: a repeated key keeps its place and takes the new value
DictSet(kvs, k, v) ==
    IF \E i \in DOMAIN kvs : kvs[i].k = k
    THEN [i \in DOMAIN kvs |-> IF kvs[i].k = k THEN [k |-> k, v |-> v] ELSE kvs[i]]
    ELSE Append(kvs, [k |-> k, v |-> v])

HasKey(d, k) == \E i \in DOMAIN d.items : d.items[i].k = k

\* dict.get(k, default)
DictGet(d, k, default) ==
    IF HasKey(d, k)
    THEN d.items[CHOOSE i \in DOMAIN d.items : d.items[i].k = k].v
    ELSE default

Punct(c) == [k |-> "punct", s |-> c]
Lit(w) == [k |-> "lit", s |-> w]
StrTok(x) == [k |-> "str", s |-> x]
NumTok(x) == [k |-> "num", s |-> x]
Junk(x) == [k |-> "junk", s |-> x]

ParseFail == [ok |-> FALSE, val |-> JNull, next |-> 0]
ParseOk(v, n) == [ok |-> TRUE, val |-> v, next |-> n]

RECURSIVE ParseValue(_, _), ParseItems(_, _, _), ParseMembers(_, _, _)

\* the JSON value starting at token i
ParseValue(toks, i) ==
    IF i > Len(toks) THEN ParseFail
    ELSE LET tok == toks[i]
         IN  CASE tok = Lit("true") -> ParseOk(JBool(TRUE), i + 1)
               [] tok = Lit("false") -> ParseOk(JBool(FALSE), i + 1)
               [] tok = Lit("null") -> ParseOk(JNull, i + 1)
               [] tok.k = "str" -> ParseOk(JStr(tok.s), i + 1)
               [] tok.k = "num" -> ParseOk(JNum(tok.s), i + 1)
               [] tok = Punct("[") ->
                    IF i + 1 <= Len(toks) /\ toks[i + 1] = Punct("]")
                    THEN ParseOk(JList(<<>>), i + 2)
                    ELSE ParseItems(toks, i + 1, <<>>)
               [] tok = Punct("{") ->
                    IF i + 1 <= Len(toks) /\ toks[i + 1] = Punct("}")
                    THEN ParseOk(JDict(<<>>), i + 2)
                    ELSE ParseMembers(toks, i + 1, <<>>)
               [] OTHER -> ParseFail

\* the elements of a list from token i on, up to its "]"
ParseItems(toks, i, acc) ==
    LET r == ParseValue(toks, i)
    IN  IF ~r.ok \/ r.next > Len(toks) THEN ParseFail
        ELSE IF toks[r.next] = Punct("]")
        THEN ParseOk(JList(Append(acc, r.val)), r.next + 1)
        ELSE IF toks[r.next] = Punct(",")
        THEN ParseItems(toks, r.next + 1, Append(acc, r.val))
        ELSE ParseFail

\* the members of an object from token i on, up to its "}"
ParseMembers(toks, i, acc) ==
    IF i + 1 > Len(toks) \/ toks[i].k # "str" \/ toks[i + 1] # Punct(":")
    THEN ParseFail
    ELSE LET r == ParseValue(toks, i + 2)
         IN  IF ~r.ok \/ r.next > Len(toks) THEN ParseFail
             ELSE IF toks[r.next] = Punct("}")
             THEN ParseOk(JDict(DictSet(acc, toks[i].s, r.val)), r.next + 1)
             ELSE IF toks[r.next] = Punct(",")
             THEN ParseMembers(toks, r.next + 1, DictSet(acc, toks[i].s, r.val))
             ELSE ParseFail

\* json.loads(text): ok = FALSE stands for JSONDecodeError
json_loads(toks) ==
    LET r == ParseValue(toks, 1)
    IN  IF r.ok /\ r.next = Len(toks) + 1 THEN r ELSE ParseFail

RECURSIVE Dumps(_), DumpsItems(_, _), DumpsMembers(_, _)

\* the text the server side of the protocol sends for a value
Dumps(x) ==
    CASE x.t = "bool" -> <<Lit(IF x.b THEN "true" ELSE "false")>>
      [] x.t = "null" -> <<Lit("null")>>
      [] x.t = "str" -> <<StrTok(x.s)>>
      [] x.t = "num" -> <<NumTok(x.s)>>
      [] x.t = "list" -> <<Punct("[")>> \o DumpsItems(x.items, 1) \o <<Punct("]")>>
      [] x.t = "dict" -> <<Punct("{")>> \o DumpsMembers(x.items, 1) \o <<Punct("}")>>

DumpsItems(xs, i) ==
    IF i > Len(xs) THEN <<>>
    ELSE Dumps(xs[i]) \o (IF i < Len(xs) THEN <<Punct(",")>> ELSE <<>>)
         \o DumpsItems(xs, i + 1)

DumpsMembers(kvs, i) ==
    IF i > Len(kvs) THEN <<>>
    ELSE <<StrTok(kvs[i].k), Punct(":")>> \o Dumps(kvs[i].v)
         \o (IF i < Len(kvs) THEN <<Punct(",")>> ELSE <<>>)
         \o DumpsMembers(kvs, i + 1)

\* the status payload of attestation_status as the decoded value of its JSON text
StatusJson(p) ==
    JDict(<< [k |-> "server", v |-> JStr(p.server)],
             [k |-> "version", v |-> JStr(p.version)],
             [k |-> "running_in_tee", v |-> JBool(p.running_in_tee)],
             [k |-> "tee_type", v |-> JStr(p.tee_type)],
             [k |-> "secrets_loaded",
              v |-> JDict([i \in DOMAIN p.secrets_loaded |->
                             [k |-> p.secrets_loaded[i].k,
                              v |-> JBool(p.secrets_loaded[i].v)]])],
             [k |-> "timestamp", v |-> JStr(p.timestamp)] >>)

(***************************************************************************)
(* Exceptions of the client.  An exception is [cls, excs]; excs holds the  *)
(* sub-exceptions of an exception group and is empty otherwise.            *)
(***************************************************************************)
\* placeholder of ret and exit_code while there is no code yet
NoCode == 0 - 1
NoExc == [cls |-> "", excs |-> <<>>]
Leaf(cls) == [cls |-> cls, excs |-> <<>>]
Group(es) == [cls |-> "ExceptionGroup", excs |-> es]

\* the classes an instance of cls is an instance of
Mro(cls) ==
    CASE cls = "ConnectionRefusedError" ->
             {"ConnectionRefusedError", "ConnectionError", "OSError", "Exception",
              "BaseException"}
      [] cls = "OSError" -> {"OSError", "Exception", "BaseException"}
      [] cls = "httpx.ConnectError" ->
             {"httpx.ConnectError", "httpx.NetworkError", "httpx.TransportError",
              "httpx.RequestError", "httpx.HTTPError", "Exception", "BaseException"}
      [] cls = "httpx.ReadTimeout" ->
             {"httpx.ReadTimeout", "httpx.TimeoutException", "httpx.TransportError",
              "httpx.RequestError", "httpx.HTTPError", "Exception", "BaseException"}
      [] cls = "McpError" -> {"McpError", "Exception", "BaseException"}
      [] cls = "AttributeError" -> {"AttributeError", "Exception", "BaseException"}
      [] cls = "ExceptionGroup" ->
             {"ExceptionGroup", "BaseExceptionGroup", "Exception", "BaseException"}
      [] OTHER -> {"BaseException"}

IsInstance(e, classes) == Mro(e.cls) \cap classes # {}

\* agent.py:83
CONNECT_ERRORS == {"ConnectionRefusedError", "OSError", "httpx.ConnectError"}

(***************************************************************************)
(* run(), agent.py:34-78: everything after the two `async with` blocks.    *)
(* A printed line is the sequence of its pieces.                           *)
(***************************************************************************)
DEFAULT_SERVER_URL == "http://localhost:8080/mcp"
CHECK == "(check)"
CROSS == "(cross)"

\* str(x) of a decoded value inside an f-string
Fmt(x) ==
    CASE x.t = "str" -> x.s
      [] x.t = "num" -> x.s
      [] x.t = "bool" -> IF x.b THEN "True" ELSE "False"
      [] x.t = "null" -> "None"
      [] OTHER -> "<container>"

RunReturned(lines, code, d) ==
    [lines |-> lines, ended |-> "return", ret |-> code, exc |-> NoExc, data |-> d]
RunRaised(lines, e, d) ==
    [lines |-> lines, ended |-> "raise", ret |-> NoCode, exc |-> e, data |-> d]

\* MissingSecrets that never reports a secret
MissingSecretsNone(kvs, i) == <<>>

\* agent.py:68: the names whose flag is falsy, in the mapping's order
RECURSIVE MissingSecrets(_, _)
MissingSecrets(kvs, i) ==
    IF i > Len(kvs) THEN <<>>
    ELSE (IF Truthy(kvs[i].v) THEN <<>> ELSE <<kvs[i].k>>) \o MissingSecrets(kvs, i + 1)

\* agent.py:44-78, for a decoded payload d that is a dict
report(d) ==
    LET server_name == DictGet(d, "server", JStr("unknown"))
        version == DictGet(d, "version", JStr("unknown"))
        running_in_tee == DictGet(d, "running_in_tee", JBool(FALSE))
        tee_label == DictGet(d, "tee_type", JStr("unknown"))
        secrets_loaded == DictGet(d, "secrets_loaded", JDict(<<>>))
        timestamp == DictGet(d, "timestamp", JStr("unknown"))
        head == << <<"MCP TEE Server - Attestation Report">>,
                   <<"=============================================">>,
                   <<"Server:        ", Fmt(server_name), " v", Fmt(version)>>,
                   <<"TEE detected:  ", IF Truthy(running_in_tee) THEN CHECK ELSE CROSS,
                     "  (", Fmt(tee_label), ")">>,
                   <<"Secrets:">> >>
    IN  IF secrets_loaded.t # "dict"
        THEN RunRaised(head, Leaf("AttributeError"), d)          \* .items() at line 61
        ELSE LET kvs == secrets_loaded.items
                 secret_lines == [i \in DOMAIN kvs |->
                                    <<"  ", kvs[i].k,
                                      IF Truthy(kvs[i].v) THEN CHECK ELSE CROSS>>]
                 missing_secrets == MissingSecrets(kvs, 1)
                 fully_attested == Truthy(running_in_tee) /\ missing_secrets = <<>>
                 warnings ==
                     (IF ~Truthy(running_in_tee)
                      THEN << <<"WARNING  Not running in a TEE - expected for local development.">> >>
                      ELSE <<>>)
                     \o (IF missing_secrets # <<>>
                         THEN << <<"WARNING  Missing secrets: ">> \o missing_secrets >>
                         ELSE <<>>)
                     \o (IF fully_attested
                         THEN << <<"OK  Server is attested and all secrets are loaded.">> >>
                         ELSE <<>>)
             IN  RunReturned(head \o secret_lines
                               \o << <<"Timestamp:     ", Fmt(timestamp)>>, <<>> >>
                               \o warnings,
                             IF fully_attested THEN 0 ELSE 1, d)

\* agent.py:34-78
parse_and_report(res) ==
    IF res.content = <<>> \/ "text" \notin DOMAIN res.content[1]
    THEN RunReturned(<< <<"ERROR: Unexpected response format from attestation_status tool.">> >>,
                     1, JNull)
    ELSE LET parsed == json_loads(res.content[1].text)
         IN  IF ~parsed.ok
             THEN RunReturned(<< <<"ERROR: Could not parse attestation_status response: ",
                                   "JSONDecodeError">> >>, 1, JNull)
             ELSE IF parsed.val.t # "dict"
             THEN RunRaised(<<>>, Leaf("AttributeError"), parsed.val)   \* .get at line 44
             ELSE report(parsed.val)

(***************************************************************************)
(* main(), agent.py:81-102: what becomes of run()'s outcome.               *)
(***************************************************************************)
ConnectLine(url, e) == <<"ERROR: could not connect to ", url, " - ", e.cls>>

\* [lines printed, handled?, exit_code]
main_handle(url, e) ==
    IF IsInstance(e, CONNECT_ERRORS)
    THEN [lines |-> <<ConnectLine(url, e)>>, handled |-> TRUE, exit_code |-> 1]
    ELSE LET causes == IF IsInstance(e, {"BaseExceptionGroup"}) THEN e.excs ELSE <<e>>
             conn_causes == SelectSeq(causes, LAMBDA c : IsInstance(c, CONNECT_ERRORS))
         IN  IF conn_causes # <<>>
             THEN [lines |-> <<ConnectLine(url, conn_causes[1])>>, handled |-> TRUE,
                   exit_code |-> 1]
             ELSE [lines |-> <<>>, handled |-> FALSE, exit_code |-> NoCode]       \* raise

(***************************************************************************)
(* What the session layer and the server at server_url may do.             *)
(***************************************************************************)
TextContent(toks) == [type |-> "text", text |-> toks]
ImageContent == [type |-> "image", mimeType |-> "image/png"]
CallToolResult(content) == [content |-> content]
NoResult == [unbound |-> TRUE]

Absent == [present |-> FALSE, v |-> JNull]
Present(x) == [present |-> TRUE, v |-> x]
Field(k, opt) == IF opt.present THEN <<[k |-> k, v |-> opt.v]>> ELSE <<>>

TeeFieldOptions ==
    {Absent, Present(JBool(TRUE)), Present(JBool(FALSE)), Present(JStr("false")),
     Present(JNull)}
SecretsFieldOptions ==
    {Absent, Present(JDict(<<>>)),
     Present(JDict(<<[k |-> "A", v |-> JBool(TRUE)], [k |-> "B", v |-> JBool(FALSE)]>>)),
     Present(JDict(<<[k |-> "A", v |-> JBool(TRUE)], [k |-> "B", v |-> JBool(TRUE)]>>)),
     Present(JDict(<<[k |-> "A", v |-> JNull]>>)),
     Present(JList(<<>>)), Present(JStr("none"))}
IdentityOptions == {Absent, Present(JStr("s"))}

\* status-like documents, some fields missing or of another type
StatusLikeValues ==
    {JDict(Field("server", id) \o Field("running_in_tee", tee)
             \o Field("secrets_loaded", sec) \o Field("timestamp", id)) :
        id \in IdentityOptions, tee \in TeeFieldOptions, sec \in SecretsFieldOptions}

\* well-formed JSON that is no mapping
OtherValues ==
    {JList(<<>>), JList(<<JBool(TRUE)>>), JNull, JBool(TRUE), JStr("ok"), JNum("5")}

\* text that is no JSON document
BrokenTexts ==
    { <<>>,
      <<Junk("Error executing tool attestation_status")>>,
      <<Punct("{")>>,
      <<Punct("{"), StrTok("server"), Punct(":")>>,
      <<Punct("{"), StrTok("running_in_tee"), Punct(":"), Lit("true"), Punct(","),
        Punct("}")>>,
      <<Punct("{"), Punct("}"), Punct("}")>>,
      <<Punct("["), Lit("true"), Lit("false"), Punct("]")>> }

\* a repeated key: the later value is the one json.loads keeps
RepeatedKeyText ==
    <<Punct("{"), StrTok("running_in_tee"), Punct(":"), Lit("false"), Punct(","),
      StrTok("running_in_tee"), Punct(":"), Lit("true"), Punct("}")>>

ResponseTexts ==
    {Dumps(x) : x \in StatusLikeValues \cup OtherValues}
    \cup BrokenTexts \cup {RepeatedKeyText}

Responses ==
    {CallToolResult(<<TextContent(t)>>) : t \in ResponseTexts}
    \cup {CallToolResult(<<>>),
          CallToolResult(<<ImageContent>>),
          CallToolResult(<<ImageContent, TextContent(Dumps(JDict(<<>>)))>>),
          CallToolResult(<<TextContent(Dumps(JDict(<<>>))), ImageContent>>)}

\* the response of this repository's server, through the protocol's serialisation
ServerResponse ==
    CallToolResult(<<TextContent(Dumps(StatusJson(attestation_status.payload)))>>)

LeafClasses ==
    {"ConnectionRefusedError", "OSError", "httpx.ConnectError", "httpx.ReadTimeout",
     "McpError"}

\* what entering a context, initialize() or call_tool() may raise
BodyErrors ==
    {Leaf(c) : c \in LeafClasses}
    \cup {Group(<<Leaf("httpx.ConnectError")>>),
          Group(<<Leaf("McpError")>>),
          Group(<<Leaf("McpError"), Leaf("OSError")>>)}

\* what leaving an `async with` block does to the exception in flight: a task
\* group re-raises it as it is or inside a group, and may report the failure
\* of a background task when the block itself ended normally
ExitOutcomes(e) ==
    IF e = NoExc
    THEN {NoExc, Group(<<Leaf("httpx.ConnectError")>>), Group(<<Leaf("McpError")>>)}
    ELSE {e, Group(<<e>>)}

(***************************************************************************)
(* Client actions.  run() is followed step by step through its two nested  *)
(* `async with` blocks (agent.py:28-32); main() handles its outcome.       *)
(***************************************************************************)
ServerUrls == {DEFAULT_SERVER_URL, "http://tee.example:8080/mcp"}

ClientStart ==
    /\ pc = "main"
    /\ transport_open = FALSE
    /\ session_open = FALSE
    /\ result = NoResult
    /\ exc = NoExc
    /\ data = JNull
    /\ ret = NoCode
    /\ stdout = <<>>
    /\ exit_code = NoCode
    /\ server_url \in ServerUrls
    /\ reached_parse = FALSE

\* agent.py:82-85 and 25-26: main() starts run(), which prints its banner
Run ==
    /\ pc = "main"
    /\ stdout' = stdout \o << <<"Connecting to: ", server_url>>, <<>> >>
    /\ pc' = "enter_transport"
    /\ UNCHANGED <<serverVars, transport_open, session_open, result, exc, data, ret,
                   exit_code, server_url, reached_parse>>

\* agent.py:28: async with streamablehttp_client(server_url)
EnterTransport ==
    /\ pc = "enter_transport"
    /\ \/ /\ transport_open' = TRUE
          /\ pc' = "enter_session"
          /\ exc' = exc
       \/ /\ \E e \in BodyErrors : exc' = e
          /\ pc' = "run_raised"
          /\ transport_open' = transport_open
    /\ UNCHANGED <<serverVars, session_open, result, data, ret, stdout, exit_code,
                   server_url, reached_parse>>

\* agent.py:29: async with ClientSession(read_stream, write_stream)
EnterSession ==
    /\ pc = "enter_session"
    /\ \/ /\ session_open' = TRUE
          /\ pc' = "initialize"
          /\ exc' = exc
       \/ /\ \E e \in BodyErrors : exc' = e
          /\ pc' = "exit_transport"
          /\ session_open' = session_open
    /\ UNCHANGED <<serverVars, transport_open, result, data, ret, stdout, exit_code,
                   server_url, reached_parse>>

\* agent.py:30: await session.initialize()
Initialize ==
    /\ pc = "initialize"
    /\ \/ /\ pc' = "call_tool"
          /\ exc' = exc
       \/ /\ \E e \in BodyErrors : exc' = e
          /\ pc' = "exit_session"
    /\ UNCHANGED <<serverVars, transport_open, session_open, result, data, ret, stdout,
                   exit_code, server_url, reached_parse>>

\* agent.py:32: result = await session.call_tool("attestation_status", arguments={})
CallTool ==
    /\ pc = "call_tool"
    /\ \/ /\ result' \in Responses \cup {ServerResponse}
          /\ exc' = exc
       \/ /\ \E e \in BodyErrors : exc' = e
          /\ result' = result
    /\ pc' = "exit_session"
    /\ UNCHANGED <<serverVars, transport_open, session_open, data, ret, stdout,
                   exit_code, server_url, reached_parse>>

\* ExitSession that releases the session only when the block ended normally
ExitSessionLeaksOnError ==
    /\ pc = "exit_session"
    /\ session_open' = (exc # NoExc)
    /\ exc' \in ExitOutcomes(exc)
    /\ pc' = "exit_transport"
    /\ UNCHANGED <<serverVars, transport_open, result, data, ret, stdout, exit_code,
                   server_url, reached_parse>>

\* agent.py:29: leaving the ClientSession block, normally or with exc in flight
ExitSession ==
    /\ pc = "exit_session"
    /\ session_open' = FALSE
    /\ exc' \in ExitOutcomes(exc)
    /\ pc' = "exit_transport"
    /\ UNCHANGED <<serverVars, transport_open, result, data, ret, stdout, exit_code,
                   server_url, reached_parse>>

\* agent.py:28: leaving the streamablehttp_client block
ExitTransport ==
    /\ pc = "exit_transport"
    /\ transport_open' = FALSE
    /\ exc' \in ExitOutcomes(exc)
    /\ pc' = IF exc' = NoExc THEN "parse" ELSE "run_raised"
    /\ UNCHANGED <<serverVars, session_open, result, data, ret, stdout, exit_code,
                   server_url, reached_parse>>

\* agent.py:34-78
ParseAndReport ==
    /\ pc = "parse"
    /\ LET out == parse_and_report(result)
       IN  /\ stdout' = stdout \o out.lines
           /\ data' = out.data
           /\ ret' = out.ret
           /\ exc' = out.exc
           /\ pc' = IF out.ended = "return" THEN "run_returned" ELSE "run_raised"
    /\ reached_parse' = TRUE
    /\ UNCHANGED <<serverVars, transport_open, session_open, result, exit_code,
                   server_url>>

\* agent.py:85 and 102: run() returned; sys.exit(exit_code)
MainExit ==
    /\ pc = "run_returned"
    /\ exit_code' = ret
    /\ pc' = "exited"
    /\ UNCHANGED <<serverVars, transport_open, session_open, result, exc, data, ret,
                   stdout, server_url, reached_parse>>

\* agent.py:86-102: run() raised
MainExcept ==
    /\ pc = "run_raised"
    /\ LET h == main_handle(server_url, exc)
       IN  /\ stdout' = stdout \o h.lines
           /\ exit_code' = h.exit_code
           /\ pc' = IF h.handled THEN "exited" ELSE "unhandled"
    /\ UNCHANGED <<serverVars, transport_open, session_open, result, exc, data, ret,
                   server_url, reached_parse>>

(***************************************************************************)
(* Specifications.  The server serves tool calls; the client is one run of *)
(* agent.py against a server whose secrets and host are any ServerStart.   *)
(***************************************************************************)
ServerInit == ServerStart /\ ClientStart /\ server_url = DEFAULT_SERVER_URL
ServerNext ==
    \/ GithubSearchIssues \/ QueryDatabase \/ SendNotification \/ AttestationStatus
    \/ Deliver
ServerSpec == ServerInit /\ [][ServerNext]_vars

ClientInit == ServerStart /\ ClientStart
ClientNext ==
    \/ Run \/ EnterTransport \/ EnterSession \/ Initialize \/ CallTool
    \/ ExitSession \/ ExitTransport \/ ParseAndReport \/ MainExit \/ MainExcept
ClientSpec == ClientInit /\ [][ClientNext]_vars

(***************************************************************************)
(* Properties of the server (checked under ServerSpec).                    *)
(***************************************************************************)
GatedTools == {"github_search_issues", "query_database", "send_notification"}

RequiredSecret(tool) ==
    CASE tool = "github_search_issues" -> "GITHUB_TOKEN"
      [] tool = "query_database" -> "DB_CONNECTION_STRING"
      [] tool = "send_notification" -> "WEBHOOK_URL"

\* a secret is present when the environment gave it a non-empty value
SecretPresent(name) == environ[name] \notin {Unset, ""}

SecretUnavailable(name) ==
    CASE name = "GITHUB_TOKEN" ->
             <<"GITHUB_TOKEN not available - attestation may have failed">>
      [] name = "DB_CONNECTION_STRING" ->
             <<"DB_CONNECTION_STRING not available - attestation may have failed">>
      [] name = "WEBHOOK_URL" ->
             <<"WEBHOOK_URL not available - attestation may have failed">>

InvalidInputErrors ==
    {<<"Only SELECT queries are permitted (read-only mode)">>,
     <<"urgency must be 'low', 'normal', or 'high'">>}
    \cup {<<"Query contains forbidden keyword: ">> \o kw :
             kw \in {<<"I", "N", "S", "E", "R", "T">>, <<"U", "P", "D", "A", "T", "E">>,
                     <<"D", "E", "L", "E", "T", "E">>, <<"D", "R", "O", "P">>,
                     <<"A", "L", "T", "E", "R">>, <<"C", "R", "E", "A", "T", "E">>,
                     <<"T", "R", "U", "N", "C", "A", "T", "E">>, <<"E", "X", "E", "C">>}}

\* C1: a gated tool invoked while its required secret is absent returns the
\* secret-unavailable error naming that secret and makes no outbound call,
\* whatever its arguments are (valid or not).
C1_SecretGateFirst ==
    \A tool \in GatedTools :
        (inv.tool = tool /\ ~SecretPresent(RequiredSecret(tool)))
        => /\ inv.ended = "return"
           /\ IsError(inv.payload)
           /\ inv.payload.error = SecretUnavailable(RequiredSecret(tool))
           /\ inv.outbound = <<>>

\* C1 witness: query_database called without its secret and with SQL that input
\* validation would reject.
C1_Witness ==
    /\ inv.tool = "query_database"
    /\ ~SecretPresent("DB_CONNECTION_STRING")
    /\ inv.args.sql = SqlUpdate
    /\ IsError(inv.payload)
    /\ inv.payload.error = SecretUnavailable("DB_CONNECTION_STRING")
    /\ inv.outbound = <<>>

\* C3: whatever the external call does, an invocation of a gated tool ends by
\* returning a payload; no exception leaves the tool.
C3_NoExceptionLeavesTool ==
    inv.tool \in GatedTools => inv.ended = "return"

\* C4: attestation_status returns a status payload, never an error, whose
\* secrets_loaded has exactly the three declared names as keys, each true iff
\* that secret is present.
C4_SecretsLoadedExact ==
    inv.tool = "attestation_status"
    => /\ inv.ended = "return"
       /\ ~IsError(inv.payload)
       /\ LET sl == inv.payload.secrets_loaded
          IN  /\ Len(sl) = 3
              /\ {sl[i].k : i \in DOMAIN sl}
                   = {"GITHUB_TOKEN", "DB_CONNECTION_STRING", "WEBHOOK_URL"}
              /\ \A i \in DOMAIN sl : sl[i].v = SecretPresent(sl[i].k)

\* C4 witness: a status with one secret present and the other two absent.
C4_Witness ==
    /\ inv.tool = "attestation_status"
    /\ SecretPresent("WEBHOOK_URL")
    /\ environ["GITHUB_TOKEN"] = ""
    /\ environ["DB_CONNECTION_STRING"] = Unset
    /\ inv.payload.secrets_loaded[3] = [k |-> "WEBHOOK_URL", v |-> TRUE]

\* C7: running_in_tee is true iff some marker exists; the label is the vendor
\* label when a vendor device path exists (even beside the generic marker), the
\* generic label when only the generic marker exists and the none label when no
\* marker exists; so running_in_tee is true exactly when the label is not none.
C7_TeeLabelPrecedence ==
    inv.tool = "attestation_status"
    => LET p == inv.payload
           vendor == "/dev/sev-guest" \in fs \/ "/dev/sev" \in fs
           generic == "/sys/kernel/security/tee" \in fs
       IN  /\ p.running_in_tee = (vendor \/ generic)
           /\ vendor => p.tee_type = "AMD SEV-SNP"
           /\ (generic /\ ~vendor) => p.tee_type = "TEE detected"
           /\ (~generic /\ ~vendor) => p.tee_type = "none detected"
           /\ p.running_in_tee = (p.tee_type # "none detected")

\* C7 witness: the generic marker and a vendor device path both exist and the
\* status carries the vendor label.
C7_Witness ==
    /\ inv.tool = "attestation_status"
    /\ fs = {"/sys/kernel/security/tee", "/dev/sev"}
    /\ inv.payload.tee_type = "AMD SEV-SNP"
    /\ inv.payload.running_in_tee

\* C8: when query_database succeeds, max_rows is clamped into [1, 1000], at most
\* that many rows are returned, and truncated is true iff the database returned
\* more rows than the clamped max_rows.
C8_RowsClampedAndTruncated ==
    (inv.tool = "query_database" /\ inv.ended = "return" /\ ~IsError(inv.payload))
    => LET m == inv.args.max_rows
           clamped == IF m < 1 THEN 1 ELSE IF m > 1000 THEN 1000 ELSE m
           p == inv.payload
       IN  /\ SecretPresent("DB_CONNECTION_STRING")
           /\ inv.up.kind = "rows"
           /\ Len(p.rows) <= clamped
           /\ p.row_count = Len(p.rows)
           /\ p.truncated = (inv.up.n > clamped)

\* C8 witness: max_rows = 5000 against more than 1000 upstream rows returns 1000
\* rows and truncated = true.
C8_Witness ==
    /\ inv.tool = "query_database"
    /\ inv.args.max_rows = 5000
    /\ inv.up.kind = "rows"
    /\ inv.up.n > 1000
    /\ ~IsError(inv.payload)
    /\ inv.payload.row_count = 1000
    /\ inv.payload.truncated

SqlAcceptable(sql) ==
    LET text == Upper(Strip(sql))
    IN  /\ StartsWith(text, <<"S", "E", "L", "E", "C", "T">>)
        /\ \A kw \in {<<"I", "N", "S", "E", "R", "T">>, <<"U", "P", "D", "A", "T", "E">>,
                      <<"D", "E", "L", "E", "T", "E">>, <<"D", "R", "O", "P">>,
                      <<"A", "L", "T", "E", "R">>, <<"C", "R", "E", "A", "T", "E">>,
                      <<"T", "R", "U", "N", "C", "A", "T", "E">>, <<"E", "X", "E", "C">>} :
               ~Contains(text, kw)

RejectedAsInvalid ==
    /\ inv.ended = "return"
    /\ IsError(inv.payload)
    /\ inv.payload.error \in InvalidInputErrors
    /\ inv.outbound = <<>>

\* C9: with the secret present, query_database makes an outbound call only if
\* the trimmed, upper-cased SQL starts with SELECT and contains no forbidden
\* keyword, and send_notification only if urgency is low, normal or high;
\* otherwise the tool returns an invalid-input error and makes no outbound call.
C9_ValidationBeforeExecution ==
    /\ (inv.tool = "query_database" /\ SecretPresent("DB_CONNECTION_STRING"))
       => /\ inv.outbound # <<>> => SqlAcceptable(inv.args.sql)
          /\ ~SqlAcceptable(inv.args.sql) => RejectedAsInvalid
    /\ (inv.tool = "send_notification" /\ SecretPresent("WEBHOOK_URL"))
       => LET allowed == inv.args.urgency \in
                           {<<"l", "o", "w">>, <<"n", "o", "r", "m", "a", "l">>,
                            <<"h", "i", "g", "h">>}
          IN  /\ inv.outbound # <<>> => allowed
              /\ ~allowed => RejectedAsInvalid

\* C9 witness: "select * from t; DROP TABLE t" with the secret present is
\* rejected for its forbidden keyword before any outbound call.
C9_Witness ==
    /\ inv.tool = "query_database"
    /\ SecretPresent("DB_CONNECTION_STRING")
    /\ inv.args.sql = SqlDropTail
    /\ inv.payload = ErrorPayload(<<"Query contains forbidden keyword: ", "D", "R", "O", "P">>)
    /\ inv.outbound = <<>>

(***************************************************************************)
(* Properties of the client (checked under ClientSpec).                    *)
(***************************************************************************)
DiagnosticHeads ==
    {"ERROR: Unexpected response format from attestation_status tool.",
     "ERROR: Could not parse attestation_status response: ",
     "ERROR: could not connect to "}

Diagnostics == SelectSeq(stdout, LAMBDA line : line # <<>> /\ line[1] \in DiagnosticHeads)

\* a decoded payload of the status shape: a mapping whose running_in_tee, when
\* there, is a bool and whose secrets_loaded, when there, maps names to bools
StatusShaped(d) ==
    /\ d.t = "dict"
    /\ \A i \in DOMAIN d.items :
          /\ d.items[i].k = "running_in_tee" => d.items[i].v.t = "bool"
          /\ d.items[i].k = "secrets_loaded"
             => /\ d.items[i].v.t = "dict"
                /\ \A j \in DOMAIN d.items[i].v.items :
                      d.items[i].v.items[j].v.t = "bool"

TeeFlagTrue(d) ==
    \E i \in DOMAIN d.items : d.items[i].k = "running_in_tee" /\ d.items[i].v.b

SomeSecretFalse(d) ==
    \E i \in DOMAIN d.items :
        /\ d.items[i].k = "secrets_loaded"
        /\ \E j \in DOMAIN d.items[i].v.items : ~d.items[i].v.items[j].v.b

\* C2: for a status payload that parses, run() returns 0 iff running_in_tee is
\* true and no entry of secrets_loaded is false, and 1 otherwise; a missing
\* running_in_tee counts as false, a missing secrets_loaded as an empty mapping.
C2_ExitZeroIffAttested ==
    (reached_parse /\ StatusShaped(data))
    => /\ pc \in {"run_returned", "exited"}
       /\ ret = (IF TeeFlagTrue(data) /\ ~SomeSecretFalse(data) THEN 0 ELSE 1)

\* C2 witness: a payload with running_in_tee true and no secrets_loaded key, for
\* which run() returned 0.
C2_Witness ==
    /\ reached_parse
    /\ StatusShaped(data)
    /\ TeeFlagTrue(data)
    /\ ~HasKey(data, "secrets_loaded")
    /\ ret = 0

\* a response the verifier cannot read a status mapping from
Malformed(res) ==
    \/ res.content = <<>>
    \/ "text" \notin DOMAIN res.content[1]
    \/ ~json_loads(res.content[1].text).ok
    \/ json_loads(res.content[1].text).val.t # "dict"

\* C5: when the response has no content, a first element without text, or text
\* that is not structured data of the expected shape, run() prints a diagnostic
\* and returns 1 without raising.
C5_MalformedReturnsOne ==
    (reached_parse /\ Malformed(result))
    => /\ exc = NoExc
       /\ ret = 1
       /\ Len(Diagnostics) >= 1

RECURSIVE CarriesConnectError(_)
\* e is a connection failure, or a collection of causes holding one
CarriesConnectError(e) ==
    \/ IsInstance(e, {"ConnectionRefusedError", "OSError", "httpx.ConnectError"})
    \/ \E i \in DOMAIN e.excs : CarriesConnectError(e.excs[i])

\* C6: a connection failure leaving run(), raised directly or wrapped in a
\* collection of causes, ends in exactly one diagnostic line and exit code 1,
\* never as an unhandled exception.
C6_ConnectionFailureHandled ==
    (pc \in {"exited", "unhandled"} /\ exc # NoExc /\ CarriesConnectError(exc))
    => /\ pc = "exited"
       /\ exit_code = 1
       /\ Len(Diagnostics) = 1

\* C10: once run() is past its `async with` blocks, by returning, by raising or
\* by starting to parse the response, the session and the transport are released.
C10_ResourcesReleased ==
    pc \in {"parse", "run_returned", "run_raised", "exited", "unhandled"}
    => ~session_open /\ ~transport_open

\* C10 witness: the status call was answered and parsing is about to start with
\* the session and the transport closed.
C10_Witness ==
    /\ pc = "parse"
    /\ result = ServerResponse
    /\ ~session_open
    /\ ~transport_open
====
